---- MODULE Spec2Model ----
(***************************************************************************)
(* A model of todo.cpp: a command-line task list persisted in todo.txt.    *)
(* One invocation of main loads the file, dispatches one command, saves    *)
(* (in the branches that call saveTasks) and prints.  Strings are          *)
(* sequences of one-character strings, so trimming, line splitting and     *)
(* the parsing of the completion flag are computed as the code computes    *)
(* them.                                                                   *)
(***************************************************************************)
EXTENDS Integers, Sequences, FiniteSets

VARIABLES
    fileExists,   \* todo.txt exists beside the executable
    fileContent,  \* its characters
    pc,           \* per invocation: where main is
    argv,         \* per invocation: argv[1] and argv[2..]
    tasks,        \* per invocation: vector<Task> tasks of main
    loaded,       \* per invocation: tasks as loadTasksFromFile left it
    saved,        \* per invocation: saveTasks opened the file
    out,          \* per invocation: lines written to cout
    exitCode,     \* per invocation: status of the process
    prev          \* the invocation that ran before the current one

vars == <<fileExists, fileContent, pc, argv, tasks, loaded, saved, out,
          exitCode, prev>>

----------------------------------------------------------------------------
(* Bounds of the model *)

MaxTasks == 3

ConcMaxTasks == 2

Procs == {1, 2}

----------------------------------------------------------------------------
(* Strings *)

NL == "\n"

\* string::npos, as an index no 1-based position equals
npos == 0

IntMax == 2147483647

Digits == {"0", "1", "2", "3", "4", "5", "6", "7", "8", "9"}

DigitVal(c) ==
    CASE c = "0" -> 0 [] c = "1" -> 1 [] c = "2" -> 2 [] c = "3" -> 3
      [] c = "4" -> 4 [] c = "5" -> 5 [] c = "6" -> 6 [] c = "7" -> 7
      [] c = "8" -> 8 [] c = "9" -> 9

\* the characters isspace accepts (skipped by operator>> and by stoi)
SpaceChars == {" ", "\t", NL, "\r", "\f"}

\* the set trim strips: " \t\n\r"
TrimChars == {" ", "\t", NL, "\r"}

find_first_not_of(str, set) ==
    IF \E i \in 1..Len(str) : str[i] \notin set
    THEN CHOOSE i \in 1..Len(str) :
            /\ str[i] \notin set
            /\ \A j \in 1..(i - 1) : str[j] \in set
    ELSE npos

find_last_not_of(str, set) ==
    IF \E i \in 1..Len(str) : str[i] \notin set
    THEN CHOOSE i \in 1..Len(str) :
            /\ str[i] \notin set
            /\ \A j \in (i + 1)..Len(str) : str[j] \in set
    ELSE npos

find(str, ch) ==
    IF \E i \in 1..Len(str) : str[i] = ch
    THEN CHOOSE i \in 1..Len(str) :
            /\ str[i] = ch
            /\ \A j \in 1..(i - 1) : str[j] # ch
    ELSE npos

\* trim left out: the description keeps the separator's space
trimNothing(str) == str

trim(str) ==
    LET first == find_first_not_of(str, TrimChars)
        last  == find_last_not_of(str, TrimChars)
    IN  IF first = npos \/ last = npos
        THEN <<>>
        ELSE SubSeq(str, first, last)

\* the end of the run of digits that starts at position i of s
RECURSIVE DigitsEnd(_, _)
DigitsEnd(s, i) ==
    IF i <= Len(s) /\ s[i] \in Digits THEN DigitsEnd(s, i + 1) ELSE i

\* the value of a run of digits; -1 stands for every value above IntMax
RECURSIVE DecValue(_)
DecValue(ds) ==
    IF ds = <<>> THEN 0
    ELSE LET hi == DecValue(SubSeq(ds, 1, Len(ds) - 1))
             d  == DigitVal(ds[Len(ds)])
         IN  IF hi < 0 \/ hi > (IntMax - d) \div 10
             THEN -1
             ELSE hi * 10 + d

\* a run of digits without its leading zeros
RECURSIVE StripZeros(_)
StripZeros(ds) ==
    IF Len(ds) > 1 /\ Head(ds) = "0" THEN StripZeros(Tail(ds)) ELSE ds

\* the digits of -(INT_MIN)
IntMinDigits == <<"2", "1", "4", "7", "4", "8", "3", "6", "4", "8">>

\* The scan strtol and num_get share: leading white space, an optional
\* sign, a run of decimal digits.
ScanInt(s) ==
    LET start == find_first_not_of(s, SpaceChars)
        neg   == start # npos /\ s[start] = "-"
        from  == IF start # npos /\ s[start] \in {"+", "-"}
                 THEN start + 1 ELSE start
        to    == IF start = npos THEN npos ELSE DigitsEnd(s, from)
    IN  [blank  |-> start = npos,
         nodigs |-> start = npos \/ to = from,
         neg    |-> neg,
         digs   |-> IF start = npos \/ to = from THEN <<>>
                    ELSE SubSeq(s, from, to - 1),
         mag    |-> IF start = npos \/ to = from THEN 0
                    ELSE DecValue(SubSeq(s, from, to - 1)),
         next   |-> to]

----------------------------------------------------------------------------
(* Task and the operations on vector<Task> *)

Task(desc, comp) == [description |-> desc, completed |-> comp]

\* the new task put first instead of last
addTaskFront(ts, task) == <<Task(task, FALSE)>> \o ts

addTask(ts, task) == Append(ts, Task(task, FALSE))

IndexValid(ts, index) == index >= 1 /\ index <= Len(ts)

\* the index taken as 0-based
removeTaskZeroBased(ts, index) ==
    IF index >= 0 /\ index < Len(ts)
    THEN SubSeq(ts, 1, index) \o SubSeq(ts, index + 2, Len(ts))
    ELSE ts

\* erase(first, end) instead of erase(first)
removeTaskToEnd(ts, index) ==
    IF index >= 1 /\ index <= Len(ts)
    THEN SubSeq(ts, 1, index - 1)
    ELSE ts

removeTask(ts, index) ==
    IF IndexValid(ts, index)
    THEN SubSeq(ts, 1, index - 1) \o SubSeq(ts, index + 1, Len(ts))
    ELSE ts

\* the flag toggled instead of set
markDoneToggle(ts, index) ==
    IF index >= 1 /\ index <= Len(ts)
    THEN [ts EXCEPT ![index].completed = ~@]
    ELSE ts

markDone(ts, index) ==
    IF IndexValid(ts, index)
    THEN [ts EXCEPT ![index].completed = TRUE]
    ELSE ts

\* clear() left out
resetTasksKeeps(ts) == ts

resetTasks(ts) == <<>>

\* A line of cout: a fixed message, or the entry "<pos>. [<box>] <text>"
\* of a task.
Msg(m) == [msg |-> m, pos |-> 0, box |-> "", text |-> <<>>]

Entry(i, t) ==
    [msg  |-> "",
     pos  |-> i,
     box  |-> IF t.completed THEN "X" ELSE " ",
     text |-> t.description]

listTasks(ts) ==
    IF ts = <<>>
    THEN <<Msg("No tasks available.")>>
    ELSE [i \in 1..Len(ts) |-> Entry(i, ts[i])]

InvalidIndexOut(ts, index) ==
    IF IndexValid(ts, index) THEN <<>> ELSE <<Msg("Invalid task index.")>>

----------------------------------------------------------------------------
(* The persistence file *)

\* operator<< of a bool without boolalpha
FlagChar(b) == IF b THEN "1" ELSE "0"

\* file << task.completed << " " << task.description << endl
TaskLine(t) == <<FlagChar(t.completed), " ">> \o t.description \o <<NL>>

\* the tasks written last to first
RECURSIVE SerializeReversed(_)
SerializeReversed(ts) ==
    IF ts = <<>> THEN <<>>
    ELSE SerializeReversed(Tail(ts)) \o TaskLine(Head(ts))

RECURSIVE Serialize(_)
Serialize(ts) ==
    IF ts = <<>> THEN <<>> ELSE TaskLine(Head(ts)) \o Serialize(Tail(ts))

\* the lines the loop while (getline(file, line)) sees
RECURSIVE GetLines(_)
GetLines(s) ==
    IF s = <<>> THEN <<>>
    ELSE LET nl == find(s, NL)
         IN  IF nl = npos THEN <<s>>
             ELSE <<SubSeq(s, 1, nl - 1)>> \o GetLines(SubSeq(s, nl + 1, Len(s)))

\* ss >> completed, then getline(ss, desc): the flag stored, whether it was
\* stored at all, and the rest of the line getline reads (nothing once
\* failbit or eofbit is set).
ExtractFlag(line) ==
    LET sc   == ScanInt(line)
        ok   == ~sc.nodigs /\ (sc.mag = 0 \/ (sc.mag = 1 /\ ~sc.neg))
        eof  == sc.next > Len(line)
    IN  [assigned |-> ~sc.blank,
         value    |-> ~sc.nodigs /\ sc.mag # 0,
         rest     |-> IF ok /\ ~eof
                      THEN SubSeq(line, sc.next, Len(line))
                      ELSE <<>>]

\* The Task pushed for one line.  On a line of white space only the sentry
\* of operator>> fails before anything is stored, and completed is read
\* uninitialized: either value.
ParseLine(line) ==
    LET ex == ExtractFlag(line)
    IN  {Task(trim(ex.rest), c) :
            c \in IF ex.assigned THEN {ex.value} ELSE BOOLEAN}

RECURSIVE ParseLines(_)
ParseLines(lines) ==
    IF lines = <<>> THEN {<<>>}
    ELSE {<<t>> \o rest :
            t \in ParseLine(Head(lines)), rest \in ParseLines(Tail(lines))}

\* the vectors loadTasksFromFile can build from an opened file
LoadOutcomes(content) == ParseLines(GetLines(content))

----------------------------------------------------------------------------
(* main *)

\* argc: the program name, the command when there is one, its arguments
argc(a) == IF a.cmd = "" THEN 1 ELSE 2 + Len(a.args)

\* the arguments joined with nothing between them
RECURSIVE JoinArgsNoSpace(_)
JoinArgsNoSpace(args) ==
    IF args = <<>> THEN <<>> ELSE Head(args) \o JoinArgsNoSpace(Tail(args))

\* the loop of main that joins argv[2..] with single spaces into task
RECURSIVE JoinArgs(_)
JoinArgs(args) ==
    IF args = <<>> THEN <<>>
    ELSE IF Len(args) = 1 THEN Head(args)
    ELSE Head(args) \o <<" ">> \o JoinArgs(Tail(args))

\* stoi(task): the int, or the exception it throws
stoi(str) ==
    LET sc == ScanInt(str)
    IN  IF sc.nodigs THEN [thrown |-> "invalid_argument", value |-> 0]
        ELSE IF sc.mag >= 0
             THEN [thrown |-> "", value |-> IF sc.neg THEN -sc.mag ELSE sc.mag]
        ELSE IF sc.neg /\ StripZeros(sc.digs) = IntMinDigits
             THEN [thrown |-> "", value |-> -IntMax - 1]
        ELSE [thrown |-> "out_of_range", value |-> 0]

\* the last else taken for reset: every other command resets
BranchElseReset(a) ==
    IF a.cmd = "list" THEN "list"
    ELSE IF a.cmd = "add" /\ argc(a) > 2 THEN "add"
    ELSE IF a.cmd = "remove" /\ argc(a) > 2 THEN "remove"
    ELSE IF a.cmd = "done" /\ argc(a) > 2 THEN "done"
    ELSE "reset"

\* the branch of the if-chain of main that runs
Branch(a) ==
    IF a.cmd = "list" THEN "list"
    ELSE IF a.cmd = "add" /\ argc(a) > 2 THEN "add"
    ELSE IF a.cmd = "remove" /\ argc(a) > 2 THEN "remove"
    ELSE IF a.cmd = "done" /\ argc(a) > 2 THEN "done"
    ELSE IF a.cmd = "reset" THEN "reset"
    ELSE "invalid"

Running(p) == pc[p] \in {"load", "dispatch", "save"}

\* What the model remembers of the invocation before the current one: a
\* reset (and whether its saveTasks opened the file), or an add whose
\* saveTasks opened the file (its text and the length of its list).
Summary(p) ==
    IF pc[p] = "done" /\ Branch(argv[p]) = "reset"
    THEN [branch |-> "reset", saved |-> saved[p], task |-> <<>>, n |-> 0]
    ELSE IF pc[p] = "done" /\ Branch(argv[p]) = "add" /\ saved[p]
    THEN [branch |-> "add", saved |-> TRUE,
          task |-> JoinArgs(argv[p].args), n |-> Len(tasks[p])]
    ELSE [branch |-> "other", saved |-> FALSE, task |-> <<>>, n |-> 0]

Init ==
    /\ fileExists = FALSE
    /\ fileContent = <<>>
    /\ pc = [p \in Procs |-> "idle"]
    /\ argv = [p \in Procs |-> [cmd |-> "", args |-> <<>>]]
    /\ tasks = [p \in Procs |-> <<>>]
    /\ loaded = [p \in Procs |-> <<>>]
    /\ saved = [p \in Procs |-> FALSE]
    /\ out = [p \in Procs |-> <<>>]
    /\ exitCode = [p \in Procs |-> 0]
    /\ prev = [branch |-> "other", saved |-> FALSE, task |-> <<>>, n |-> 0]

\* The process is started with command line a: vector<Task> tasks is
\* constructed empty.
Invoke(p, a) ==
    /\ ~Running(p)
    /\ a.cmd = "add" => Len(GetLines(fileContent)) < MaxTasks
    /\ pc' = [pc EXCEPT ![p] = "load"]
    /\ argv' = [argv EXCEPT ![p] = a]
    /\ tasks' = [tasks EXCEPT ![p] = <<>>]
    /\ loaded' = [loaded EXCEPT ![p] = <<>>]
    /\ saved' = [saved EXCEPT ![p] = FALSE]
    /\ out' = [out EXCEPT ![p] = <<>>]
    /\ exitCode' = [exitCode EXCEPT ![p] = 0]
    /\ prev' = Summary(p)
    /\ UNCHANGED <<fileExists, fileContent>>

\* loadTasksFromFile(tasks): the open fails when there is no file, and may
\* fail when there is one.
LoadTasksFromFile(p) ==
    /\ pc[p] = "load"
    /\ \E is_open \in IF fileExists THEN BOOLEAN ELSE {FALSE} :
        IF is_open
        THEN \E ts \in LoadOutcomes(fileContent) :
                /\ tasks' = [tasks EXCEPT ![p] = ts]
                /\ loaded' = [loaded EXCEPT ![p] = ts]
                /\ out' = out
        ELSE /\ tasks' = tasks
             /\ loaded' = [loaded EXCEPT ![p] = tasks[p]]
             /\ out' = [out EXCEPT ![p] = <<Msg("No saved tasks found.")>>]
    /\ pc' = [pc EXCEPT ![p] = "dispatch"]
    /\ UNCHANGED <<fileExists, fileContent, argv, saved, exitCode, prev>>

\* main from the argc test to the call of saveTasks, or to its return in
\* the branches that do not save
Dispatch(p) ==
    LET a      == argv[p]
        task   == JoinArgs(a.args)
        branch == Branch(a)
        index  == stoi(task)
    IN
    /\ pc[p] = "dispatch"
    /\ IF argc(a) < 2
       THEN /\ out' = [out EXCEPT ![p] = @ \o <<Msg("Usage: todo [COMMAND] [ARGUMENTS]")>>]
            /\ exitCode' = [exitCode EXCEPT ![p] = 1]
            /\ pc' = [pc EXCEPT ![p] = "done"]
            /\ tasks' = tasks
       ELSE IF branch = "list"
       THEN /\ out' = [out EXCEPT ![p] = @ \o listTasks(tasks[p])]
            /\ exitCode' = [exitCode EXCEPT ![p] = 0]
            /\ pc' = [pc EXCEPT ![p] = "done"]
            /\ tasks' = tasks
       ELSE IF branch = "add"
       THEN /\ tasks' = [tasks EXCEPT ![p] = addTask(@, task)]
            /\ pc' = [pc EXCEPT ![p] = "save"]
            /\ UNCHANGED <<out, exitCode>>
       ELSE IF branch \in {"remove", "done"} /\ index.thrown # ""
       THEN \* the exception leaves main: std::terminate
            /\ pc' = [pc EXCEPT ![p] = "crashed"]
            /\ exitCode' = [exitCode EXCEPT ![p] = 3]
            /\ UNCHANGED <<tasks, out>>
       ELSE IF branch = "remove"
       THEN /\ tasks' = [tasks EXCEPT ![p] = removeTask(@, index.value)]
            /\ out' = [out EXCEPT ![p] = @ \o InvalidIndexOut(tasks[p], index.value)]
            /\ pc' = [pc EXCEPT ![p] = "save"]
            /\ UNCHANGED exitCode
       ELSE IF branch = "done"
       THEN /\ tasks' = [tasks EXCEPT ![p] = markDone(@, index.value)]
            /\ out' = [out EXCEPT ![p] = @ \o InvalidIndexOut(tasks[p], index.value)]
            /\ pc' = [pc EXCEPT ![p] = "save"]
            /\ UNCHANGED exitCode
       ELSE IF branch = "reset"
       THEN /\ tasks' = [tasks EXCEPT ![p] = resetTasks(@)]
            /\ pc' = [pc EXCEPT ![p] = "save"]
            /\ UNCHANGED <<out, exitCode>>
       ELSE /\ out' = [out EXCEPT ![p] = @ \o <<Msg("Invalid command.")>>]
            /\ exitCode' = [exitCode EXCEPT ![p] = 0]
            /\ pc' = [pc EXCEPT ![p] = "done"]
            /\ tasks' = tasks
    /\ UNCHANGED <<fileExists, fileContent, argv, loaded, saved, prev>>

\* what main prints after saveTasks
AfterSave(a, ts) ==
    IF Branch(a) = "reset" THEN <<Msg("All tasks reset.")>> ELSE listTasks(ts)

\* the file opened with ios::app: the lines are added to what is there
SaveTasksAppend(p) ==
    /\ pc[p] = "save"
    /\ \E is_open \in BOOLEAN :
        IF is_open
        THEN /\ fileExists' = TRUE
             /\ fileContent' = fileContent \o Serialize(tasks[p])
             /\ saved' = [saved EXCEPT ![p] = TRUE]
        ELSE UNCHANGED <<fileExists, fileContent, saved>>
    /\ out' = [out EXCEPT ![p] = @ \o AfterSave(argv[p], tasks[p])]
    /\ exitCode' = [exitCode EXCEPT ![p] = 0]
    /\ pc' = [pc EXCEPT ![p] = "done"]
    /\ UNCHANGED <<argv, tasks, loaded, prev>>

\* saveTasks(tasks), then the output of the branch and return 0.  The
\* ofstream truncates the file when it opens it; when it cannot, nothing
\* is written and nothing is reported.
SaveTasks(p) ==
    /\ pc[p] = "save"
    /\ \E is_open \in BOOLEAN :
        IF is_open
        THEN /\ fileExists' = TRUE
             /\ fileContent' = Serialize(tasks[p])
             /\ saved' = [saved EXCEPT ![p] = TRUE]
        ELSE UNCHANGED <<fileExists, fileContent, saved>>
    /\ out' = [out EXCEPT ![p] = @ \o AfterSave(argv[p], tasks[p])]
    /\ exitCode' = [exitCode EXCEPT ![p] = 0]
    /\ pc' = [pc EXCEPT ![p] = "done"]
    /\ UNCHANGED <<argv, tasks, loaded, prev>>

----------------------------------------------------------------------------
(* Command lines *)

A == <<"a">>
SpA == <<" ", "a">>
ANl == <<"a", NL>>
Buy == <<"b", "u", "y">>
Milk == <<"m", "i", "l", "k">>

AddArgs == {<<A>>, <<SpA>>, <<ANl>>, <<Buy, Milk>>}

IndexArgs == {<<<<"1">>>>, <<<<"2">>>>, <<<<"3">>>>, <<<<"0">>>>,
              <<<<"-", "1">>>>, <<<<"x">>>>,
              <<<<"9", "9", "9", "9", "9", "9", "9", "9", "9", "9">>>>}

Cmd(c, args) == [cmd |-> c, args |-> args]

Argvs ==
    {Cmd("", <<>>), Cmd("list", <<>>), Cmd("add", <<>>), Cmd("remove", <<>>),
     Cmd("reset", <<>>), Cmd("undo", <<>>)}
    \cup {Cmd("add", args) : args \in AddArgs}
    \cup {Cmd(c, args) : c \in {"remove", "done"}, args \in IndexArgs}

\* One invocation at a time: the single user's sequence of commands.
Next ==
    \/ \E a \in Argvs : Invoke(1, a)
    \/ LoadTasksFromFile(1)
    \/ Dispatch(1)
    \/ SaveTasks(1)

Spec == Init /\ [][Next]_vars

\* Two invocations that may overlap: nothing locks the file, so the steps
\* of one process interleave freely with those of the other.
ConcArgvs == {Cmd("list", <<>>), Cmd("add", <<A>>), Cmd("add", <<Buy, Milk>>)}

ConcNext ==
    \/ \E p \in Procs, a \in ConcArgvs :
            /\ a.cmd = "add" => Len(GetLines(fileContent)) < ConcMaxTasks
            /\ Invoke(p, a)
    \/ \E p \in Procs : LoadTasksFromFile(p)
    \/ \E p \in Procs : Dispatch(p)
    \/ \E p \in Procs : SaveTasks(p)

ConcSpec == Init /\ [][ConcNext]_vars

----------------------------------------------------------------------------
(* Vocabulary of the properties *)

Finished(p) == pc[p] = "done"

Printed(p, m) == \E i \in DOMAIN out[p] : out[p][i] = Msg(m)

\* loadTasksFromFile opened the file in this invocation
Opened(p) == pc[p] \in {"dispatch", "save", "done", "crashed"}
             /\ ~Printed(p, "No saved tasks found.")

\* the command line is <c> <text...> with at least one word of text
HasText(p, c) == argv[p].cmd = c /\ Len(argv[p].args) > 0

TaskArg(p) == JoinArgs(argv[p].args)

\* the command line is <c> <k> with k an int
HasIndex(p, c) == HasText(p, c) /\ stoi(TaskArg(p)).thrown = ""

IndexArg(p) == stoi(TaskArg(p)).value

NoNewline(ts) ==
    \A i \in DOMAIN ts : \A j \in DOMAIN ts[i].description :
        ts[i].description[j] # NL

\* no description begins or ends with a character trim strips
NoOuterSpace(ts) ==
    \A i \in DOMAIN ts :
        LET d == ts[i].description
        IN  d # <<>> => d[1] \notin TrimChars /\ d[Len(d)] \notin TrimChars

----------------------------------------------------------------------------
(* C1 *)

\* C1, as stated: a list with no newline in its descriptions that
\* saveTasks wrote is the list loadTasksFromFile reads back.
C1_RoundTripAnyText ==
    \A p \in Procs :
        Finished(p) /\ saved[p] /\ NoNewline(tasks[p])
            => LoadOutcomes(fileContent) = {tasks[p]}

\* C1, amended: a list whose descriptions contain no newline and do not
\* begin or end with a space, tab or carriage return, written by a
\* saveTasks that opened the file, is the one list a loadTasksFromFile that
\* opens the file reads back: same length, order, descriptions and flags.
C1_RoundTripTrimmed ==
    \A p \in Procs :
        Finished(p) /\ saved[p] /\ NoNewline(tasks[p]) /\ NoOuterSpace(tasks[p])
            => /\ fileExists
               /\ LoadOutcomes(fileContent) = {tasks[p]}

C1_Witness ==
    /\ Finished(1) /\ saved[1]
    /\ NoNewline(tasks[1]) /\ NoOuterSpace(tasks[1])
    /\ Len(tasks[1]) = 3
    /\ tasks[1][1].completed /\ ~tasks[1][2].completed
    /\ tasks[1][2].description = <<>>
    /\ tasks[1][3].description = JoinArgs(<<Buy, Milk>>)

----------------------------------------------------------------------------
(* C2 *)

\* the command line is remove k or done k with k < 1 or k > length
OutOfBounds(p) ==
    /\ HasIndex(p, "remove") \/ HasIndex(p, "done")
    /\ IndexArg(p) < 1 \/ IndexArg(p) > Len(loaded[p])

----------------------------------------------------------------------------
(* C3 *)

\* the invocations C3 names as leaving the loaded list unchanged
C3_Unmutating(p) ==
    \/ argv[p].cmd \notin {"add", "remove", "done", "reset"}
    \/ OutOfBounds(p)

\* list, an unrecognized command, no command, or a command that lacks its
\* argument
C3_NoSavingBranch(p) ==
    \/ argv[p].cmd \notin {"add", "remove", "done", "reset"}
    \/ argv[p].cmd \in {"add", "remove", "done"} /\ argv[p].args = <<>>

\* C3, as stated: list, an unrecognized command, no command, and remove or
\* done with an index out of bounds perform no save.
C3_NoSaveUnlessMutated ==
    \A p \in Procs : Finished(p) /\ C3_Unmutating(p) => ~saved[p]

\* C3, amended: list, an unrecognized command, no command, and add, remove
\* or done without an argument perform no save; remove and done with an
\* index out of bounds do call saveTasks, which, when it opens the file,
\* rewrites it (creating it if need be) with the list as loaded.
C3_SaveFollowsBranch ==
    \A p \in Procs :
        Finished(p) =>
            /\ C3_NoSavingBranch(p) => ~saved[p]
            /\ OutOfBounds(p) /\ saved[p]
                 => fileExists /\ fileContent = Serialize(loaded[p])

C3_Witness ==
    /\ Finished(1) /\ HasIndex(1, "done") /\ IndexArg(1) = 0
    /\ ~Opened(1) /\ saved[1]
    /\ fileExists /\ fileContent = <<>>

----------------------------------------------------------------------------
(* C4 *)

----------------------------------------------------------------------------
(* C5 *)

\* C5: nothing locks the file, so two overlapping invocations lose an
\* update.  Whenever two adds that loaded the same list have both saved,
\* the file holds the list of one of them alone: the loaded tasks and one
\* new task, not two.
C5_LostUpdate ==
    \A p, q \in Procs :
        /\ p # q
        /\ Finished(p) /\ Finished(q)
        /\ HasText(p, "add") /\ HasText(q, "add")
        /\ saved[p] /\ saved[q]
        /\ loaded[p] = loaded[q]
        => \A ts \in LoadOutcomes(fileContent) :
              /\ Len(ts) = Len(loaded[p]) + 1
              /\ ts = tasks[p] \/ ts = tasks[q]

\* both invocations read the one-task file before either wrote; the task
\* of invocation 1 is not in the file
C5_Witness ==
    /\ Finished(1) /\ Finished(2)
    /\ HasText(1, "add") /\ HasText(2, "add")
    /\ saved[1] /\ saved[2]
    /\ Opened(1) /\ Opened(2)
    /\ loaded[1] = loaded[2] /\ Len(loaded[1]) = 1
    /\ TaskArg(1) = A /\ TaskArg(2) = JoinArgs(<<Buy, Milk>>)
    /\ fileContent = Serialize(tasks[2])
    /\ \A ts \in LoadOutcomes(fileContent) :
          \A i \in DOMAIN ts : i > 1 => ts[i].description # A

----------------------------------------------------------------------------
(* C6 *)

C6_Removed(p) ==
    LET k == IndexArg(p)
    IN  /\ Len(tasks[p]) = Len(loaded[p]) - 1
        /\ \A j \in 1..(k - 1) : tasks[p][j] = loaded[p][j]
        /\ \A j \in (k + 1)..Len(loaded[p]) : tasks[p][j - 1] = loaded[p][j]

C6_ValidRemove(p) ==
    /\ Finished(p) /\ HasIndex(p, "remove")
    /\ 1 <= IndexArg(p) /\ IndexArg(p) <= Len(loaded[p])

----------------------------------------------------------------------------
(* C7 *)

C7_Appended(p) ==
    /\ tasks[p] = loaded[p] \o <<[description |-> TaskArg(p), completed |-> FALSE]>>
    /\ exitCode[p] = 0

\* the last line a list printed
C7_LastLine == out[1][Len(out[1])]

\* C7, as stated: add appends one task with the given text, not completed,
\* to the loaded list, and a list that follows shows it at the last
\* position with an empty checkbox (the opens of the file succeeding, and
\* the text shown as trim leaves it).
C7_AddThenListShowsText ==
    /\ \A p \in Procs : Finished(p) /\ HasText(p, "add") => C7_Appended(p)
    /\ Finished(1) /\ argv[1].cmd = "list" /\ prev.branch = "add"
         /\ prev.saved /\ Opened(1)
         => C7_LastLine =
                [msg |-> "", pos |-> prev.n, box |-> " ", text |-> trim(prev.task)]

\* a list that opened the file, after an add of a text with no newline
\* whose saveTasks opened the file
C7_ListAfterSavedAdd ==
    /\ Finished(1) /\ argv[1].cmd = "list" /\ prev.branch = "add"
    /\ prev.saved /\ Opened(1)
    /\ \A j \in DOMAIN prev.task : prev.task[j] # NL

\* C7, amended: add appends one task with the given text, not completed, to
\* the loaded list; when the text has no newline, saveTasks opened the file
\* and the load of the list that follows opens it, that list shows the text,
\* trimmed of leading and trailing white space, at the last position with
\* an empty checkbox.

C7_AddThenListShowsTrimmed ==
    /\ \A p \in Procs : Finished(p) /\ HasText(p, "add") => C7_Appended(p)
    /\ C7_ListAfterSavedAdd
         => /\ Len(tasks[1]) = prev.n
            /\ C7_LastLine =
                [msg |-> "", pos |-> prev.n, box |-> " ", text |-> trim(prev.task)]

C7_Witness ==
    /\ Finished(1) /\ argv[1].cmd = "list" /\ prev.branch = "add"
    /\ prev.saved /\ Opened(1) /\ prev.task = SpA /\ prev.n = 3
    /\ C7_LastLine = [msg |-> "", pos |-> 3, box |-> " ", text |-> A]
    /\ tasks[1][1].completed

----------------------------------------------------------------------------
(* C8 *)

C8_ValidDone(p) ==
    /\ Finished(p) /\ HasIndex(p, "done")
    /\ 1 <= IndexArg(p) /\ IndexArg(p) <= Len(loaded[p])

\* C8: done k with 1 <= k <= length leaves the task at k completed and
\* changes nothing else: not the length, the order, a description or the
\* flag of another task; done k applied again changes nothing.
C8_DoneSetsOnlyFlag ==
    \A p \in Procs :
        C8_ValidDone(p)
            => /\ Len(tasks[p]) = Len(loaded[p])
               /\ tasks[p][IndexArg(p)].completed
               /\ \A i \in DOMAIN loaded[p] :
                    /\ tasks[p][i].description = loaded[p][i].description
                    /\ i # IndexArg(p)
                         => tasks[p][i].completed = loaded[p][i].completed
               /\ markDone(tasks[p], IndexArg(p)) = tasks[p]

C8_Witness ==
    /\ C8_ValidDone(1) /\ IndexArg(1) = 2 /\ Len(loaded[1]) = 3
    /\ ~loaded[1][2].completed /\ tasks[1][2].completed
    /\ loaded[1][1].completed /\ ~loaded[1][3].completed
    /\ fileContent = Serialize(tasks[1])

C8_WitnessAgain ==
    /\ C8_ValidDone(1) /\ loaded[1][IndexArg(1)].completed
    /\ tasks[1] = loaded[1]

----------------------------------------------------------------------------
(* C9 *)

BuyMilkLine == <<"0", " ", "b", "u", "y", " ", "m", "i", "l", "k", NL>>

C9_LoadIsEmpty ==
    \A p \in Procs :
        /\ pc[p] \in {"dispatch", "save", "done", "crashed"} /\ ~Opened(p)
             => loaded[p] = <<>>
        /\ Finished(p) /\ ~Opened(p) /\ argv[p].cmd = "list"
             => /\ out[p] = <<Msg("No saved tasks found."), Msg("No tasks available.")>>
                /\ exitCode[p] = 0

C9_AddBuyMilk(p) ==
    Finished(p) /\ ~Opened(p) /\ argv[p] = Cmd("add", <<Buy, Milk>>)

----------------------------------------------------------------------------
(* C10 *)

\* a line of the file that every load reads as a completed task
LineDone(line) == \A t \in ParseLine(line) : t.completed

\* line i of the file is one every load reads as a completed task
PersistedDone(content, i) ==
    i <= Len(GetLines(content)) /\ LineDone(GetLines(content)[i])

\* where the task persisted at position i is after the step, 0 when the
\* step is allowed to delete it: a reset that writes the file deletes every
\* task, a remove k with 1 <= k <= length that writes the file deletes
\* task k and moves the later ones down.  forgiven: the steps that may
\* delete anything.
C10_Position(i, forgiven) ==
    IF ~(pc[1] = "save" /\ saved'[1]) THEN i
    ELSE IF argv[1].cmd = "reset" \/ forgiven THEN 0
    ELSE IF /\ HasIndex(1, "remove")
            /\ 1 <= IndexArg(1) /\ IndexArg(1) <= Len(loaded[1])
         THEN IF i < IndexArg(1) THEN i
              ELSE IF i = IndexArg(1) THEN 0 ELSE i - 1
    ELSE i

\* a step that changes the file keeps every completed task it may not
\* delete
C10_Keeps(forgiven) ==
    LET before == GetLines(fileContent)
        after  == GetLines(fileContent')
    IN  fileContent' # fileContent =>
            \A i \in 1..Len(before) :
                LET j == C10_Position(i, forgiven)
                IN  LineDone(before[i]) /\ j # 0
                        => j <= Len(after) /\ LineDone(after[j])

\* C10, as stated: over sequential invocations a task persisted as
\* completed stays completed, at its position or one lower after the
\* removal of an earlier task, until remove deletes it or reset clears the
\* list.
C10_CompletedStaysCompleted == [][C10_Keeps(FALSE)]_vars

\* C10, amended: the same, over sequential invocations whose
\* loadTasksFromFile opened the file; an invocation that could not open an
\* existing file starts from the empty list, and its save replaces the
\* file, completed tasks included.
C10_CompletedStaysWhenLoaded == [][C10_Keeps(~Opened(1))]_vars

\* a completed task has moved down past a removal and is still completed
C10_Witness ==
    /\ Finished(1) /\ HasIndex(1, "remove") /\ IndexArg(1) = 1
    /\ Opened(1) /\ saved[1]
    /\ Len(loaded[1]) = 3
    /\ ~loaded[1][1].completed /\ loaded[1][2].completed /\ ~loaded[1][3].completed
    /\ PersistedDone(fileContent, 1) /\ ~PersistedDone(fileContent, 2)

====
